---------------------------- MODULE Spec2Model ----------------------------
(***************************************************************************)
(* The CHIP-8 interpreter of src/src/chip8.rs as a state machine.          *)
(*                                                                         *)
(* chip8 is the CHIP8 struct (plus the message of the panic that aborted   *)
(* the thread, if any), window is the host window's keyboard state, loc    *)
(* is the position of the thread in run / wait_for_keypress_and_set_keys / *)
(* wait_on_debug_input.  One step of the model is one iteration of the run *)
(* loop from emulate_cycle on, or one iteration of the blocking poll loop  *)
(* of FX0A or of the debug gate.                                            *)
(***************************************************************************)
EXTENDS Integers, Sequences, FiniteSets, TLC

VARIABLES
    chip8,            \* the CHIP8 struct (chip8.rs:11-26) and its panic
    window,           \* minifb Window: keys held now and before, frames to come
    loc,              \* "run" | "wait_for_keypress" | "wait_on_debug_input"
                      \* | "finished" | "panicked" | "exited"
    local_x,          \* operand x of the FX0A suspended in the poll loop
    overflow_checks,  \* build profile: TRUE = debug/test, FALSE = release
    calls,            \* history: <<call site, depth before>> of active calls
    prev,             \* history: the last instruction fetched and what it found
    stderr            \* what load_into_memory has printed with eprintln!

vars == <<chip8, window, loc, local_x, overflow_checks, calls, prev, stderr>>

-----------------------------------------------------------------------------
(* Program constants *)

WIDTH == 64
HEIGHT == 32
VF == 15
MEMORY_SIZE == 4096
STACK_SIZE == 16
PROGRAM_START == 512
IMAGE_SIZE == 3584
FONT_OFFSET == 80

NoPanic == ""
StackOverflowPanic == "Stack overflow!"
StackUnderflowPanic == "Stack underflow!"
IndexPanic == "index out of bounds"
AddOverflowPanic == "attempt to add with overflow"
SubOverflowPanic == "attempt to subtract with overflow"
UnimplementedPanic == "not implemented"

-----------------------------------------------------------------------------
(* Bitwise operators of u8 / u16 *)

RECURSIVE BitAnd(_, _)
BitAnd(a, b) ==
    IF a = 0 \/ b = 0 THEN 0
    ELSE ((a % 2) * (b % 2)) + 2 * BitAnd(a \div 2, b \div 2)

RECURSIVE BitOr(_, _)
BitOr(a, b) ==
    IF a = 0 THEN b
    ELSE IF b = 0 THEN a
    ELSE (IF (a % 2) + (b % 2) > 0 THEN 1 ELSE 0) + 2 * BitOr(a \div 2, b \div 2)

RECURSIVE BitXor(_, _)
BitXor(a, b) ==
    IF a = 0 THEN b
    ELSE IF b = 0 THEN a
    ELSE ((a + b) % 2) + 2 * BitXor(a \div 2, b \div 2)

RECURSIVE Pow2(_)
Pow2(k) == IF k = 0 THEN 1 ELSE 2 * Pow2(k - 1)

Shr(a, k) == a \div Pow2(k)

Panic(c, msg) == [c EXCEPT !.panic = msg]

(* F of the value of v: v is evaluated once, however often F uses it *)
Bind(v, F(_)) == CHOOSE r \in {F(d) : d \in {v}} : TRUE

-----------------------------------------------------------------------------
(* memory: [u8; 4096] is kept as the function from the addresses that hold *)
(* a nonzero byte to that byte; display: [[bool; 64]; 32] as the set of    *)
(* the <<row, column>> of the pixels that are on.                          *)

mem(c, a) == IF a \in DOMAIN c.memory THEN c.memory[a] ELSE 0

mem_set(m, a, v) ==
    [b \in (IF v = 0 THEN DOMAIN m \ {a} ELSE DOMAIN m \cup {a}) |->
        IF b = a THEN v ELSE m[b]]

pixel(c, row, col) == <<row, col>> \in c.display

pixel_set(d, row, col, on) ==
    IF on THEN d \cup {<<row, col>>} ELSE d \ {<<row, col>>}

-----------------------------------------------------------------------------
(* CHIP8::new *)

new ==
    [ registers          |-> [r \in 0..15 |-> 0],
      i                  |-> 0,
      memory             |-> [a \in {} |-> 0],
      position_in_memory |-> PROGRAM_START,
      stack              |-> [s \in 0..(STACK_SIZE - 1) |-> 0],
      stack_pointer      |-> 0,
      keys               |-> [k \in 0..15 |-> FALSE],
      delay_timer        |-> 0,
      sound_timer        |-> 0,
      display            |-> {},
      draw_flag          |-> FALSE,
      debug              |-> FALSE,
      panic              |-> NoPanic ]

-----------------------------------------------------------------------------
(* The operations of emulate_cycle, each a function of the machine *)

clear_screen(c) == [c EXCEPT !.display = {}]

goto(c, addr) == [c EXCEPT !.position_in_memory = addr]

(* call, had it pushed the address of the call instead of the address     *)
(* after it                                                                *)
call_pushes_call_site(c, addr) ==
    LET sp == c.stack_pointer IN
    IF sp > STACK_SIZE THEN Panic(c, StackOverflowPanic)
    ELSE IF sp >= STACK_SIZE THEN Panic(c, IndexPanic)
    ELSE [c EXCEPT !.stack[sp] = (c.position_in_memory - 2) % 65536,
                   !.stack_pointer = @ + 1,
                   !.position_in_memory = addr]

call(c, addr) ==
    LET sp == c.stack_pointer IN
    IF sp > STACK_SIZE THEN Panic(c, StackOverflowPanic)
    ELSE IF sp >= STACK_SIZE THEN Panic(c, IndexPanic)
    ELSE [c EXCEPT !.stack[sp] = c.position_in_memory % 65536,
                   !.stack_pointer = @ + 1,
                   !.position_in_memory = addr]

(* ret, had it popped without looking at the depth: stack_pointer -= 1 of   *)
(* usize at depth 0                                                         *)
ret_unchecked(c) ==
    IF c.stack_pointer = 0
    THEN Panic(c, IF overflow_checks THEN SubOverflowPanic ELSE IndexPanic)
    ELSE [c EXCEPT !.stack_pointer = @ - 1,
                   !.position_in_memory = c.stack[c.stack_pointer - 1]]

(* ret, had it read the stack slot before moving the stack pointer down *)
ret_reads_before_pop(c) ==
    IF c.stack_pointer = 0 THEN Panic(c, StackUnderflowPanic)
    ELSE IF c.stack_pointer >= STACK_SIZE THEN Panic(c, IndexPanic)
    ELSE [c EXCEPT !.stack_pointer = @ - 1,
                   !.position_in_memory = c.stack[c.stack_pointer]]

ret(c) ==
    IF c.stack_pointer = 0 THEN Panic(c, StackUnderflowPanic)
    ELSE [c EXCEPT !.stack_pointer = @ - 1,
                   !.position_in_memory = c.stack[c.stack_pointer - 1]]

skip_if_equal(c, x, nn) ==
    IF c.registers[x] = nn
    THEN [c EXCEPT !.position_in_memory = @ + 2]
    ELSE c

(* skip_if_not_equal, had it compared with < instead of != *)
skip_if_not_equal_below(c, x, nn) ==
    IF c.registers[x] < nn
    THEN [c EXCEPT !.position_in_memory = @ + 2]
    ELSE c

skip_if_not_equal(c, x, nn) ==
    IF c.registers[x] # nn
    THEN [c EXCEPT !.position_in_memory = @ + 2]
    ELSE c

skip_xy_equal(c, x, y) ==
    IF c.registers[x] = c.registers[y]
    THEN [c EXCEPT !.position_in_memory = @ + 2]
    ELSE c

set_xnn(c, x, nn) == [c EXCEPT !.registers[x] = nn]

(* add_xnn, had it been the plain `registers[x] += nn` of u8 *)
add_xnn_plain(c, x, nn) ==
    IF c.registers[x] + nn > 255 /\ overflow_checks
    THEN Panic(c, AddOverflowPanic)
    ELSE [c EXCEPT !.registers[x] = (c.registers[x] + nn) % 256]

add_xnn(c, x, nn) == [c EXCEPT !.registers[x] = (c.registers[x] + nn) % 256]

assign_xy(c, x, y) == [c EXCEPT !.registers[x] = c.registers[y]]

or_xy(c, x, y) == [c EXCEPT !.registers[x] = BitOr(c.registers[x], c.registers[y])]

and_xy(c, x, y) == [c EXCEPT !.registers[x] = BitAnd(c.registers[x], c.registers[y])]

xor_xy(c, x, y) == [c EXCEPT !.registers[x] = BitXor(c.registers[x], c.registers[y])]

add_xy(c, x, y) ==
    LET vx == c.registers[x]
        vy == c.registers[y]
        result == vx + vy
    IN  [c EXCEPT !.memory = mem_set(@, VF, IF result > 255 THEN 1 ELSE 0),
                  !.registers[x] = result % 256]

sub_xy(c, x, y) ==
    LET flagged == [c EXCEPT !.memory =
                        mem_set(@, VF, IF mem(c, x) > mem(c, y) THEN 1 ELSE 0)]
        diff == c.registers[x] - c.registers[y]
    IN  IF diff < 0 /\ overflow_checks
        THEN Panic(flagged, SubOverflowPanic)
        ELSE [flagged EXCEPT !.registers[x] = diff % 256]

shift_right(c, x) ==
    [c EXCEPT !.memory = mem_set(@, VF, BitAnd(mem(c, x), 1)),
              !.registers[x] = Shr(c.registers[x], 1)]

sub_yx(c, x, y) ==
    [c EXCEPT !.memory = mem_set(@, VF, IF c.registers[y] > c.registers[x] THEN 1 ELSE 0),
              !.registers[x] = (c.registers[y] - c.registers[x]) % 256]

shift_left(c, x) ==
    [c EXCEPT !.memory = mem_set(@, VF, Shr(BitAnd(mem(c, x), 128), 7)),
              !.registers[x] = (c.registers[x] * 2) % 256]

skip_xy_not_equal(c, x, y) ==
    IF c.registers[x] # c.registers[y]
    THEN [c EXCEPT !.position_in_memory = @ + 2]
    ELSE c

set_16bit_register(c, addr) == [c EXCEPT !.i = addr]

jump_nnn_plus_v0(c, addr) == [c EXCEPT !.position_in_memory = (c.registers[0] + addr) % 65536]

rand(c, x, nn, random) == [c EXCEPT !.registers[x] = BitAnd(random, nn)]


(* draw_cols, had it ORed the sprite bit into the pixel instead of XORing  *)
(* it                                                                      *)
RECURSIVE draw_cols_or(_, _, _, _, _)
draw_cols_or(c, row, vx, screen_y, col) ==
    IF col = 8 THEN c
    ELSE
        LET val == BitAnd(row, Shr(128, col)) > 0
            sum == vx + col
        IN  IF sum > 255 /\ overflow_checks
            THEN Panic(c, AddOverflowPanic)
            ELSE
                LET screen_x == (sum % 256) % WIDTH
                    old == pixel(c, screen_y, screen_x)
                    hit == (val /\ old) # old
                    c1 == IF hit THEN [c EXCEPT !.memory = mem_set(@, VF, 1)] ELSE c
                    c2 == [c1 EXCEPT !.display =
                               pixel_set(@, screen_y, screen_x, old \/ val)]
                IN  draw_cols_or(c2, row, vx, screen_y, col + 1)

(* draw(Vx,Vy,N): the inner loop over the 8 columns of one sprite row *)
RECURSIVE draw_cols(_, _, _, _, _)
draw_cols(c, row, vx, screen_y, col) ==
    IF col = 8 THEN c
    ELSE
        LET val == BitAnd(row, Shr(128, col)) > 0
            sum == vx + col
        IN  IF sum > 255 /\ overflow_checks
            THEN Panic(c, AddOverflowPanic)
            ELSE
                LET screen_x == (sum % 256) % WIDTH
                    old == pixel(c, screen_y, screen_x)
                    hit == (val /\ old) # old
                    c1 == IF hit THEN [c EXCEPT !.memory = mem_set(@, VF, 1)] ELSE c
                    c2 == [c1 EXCEPT !.display =
                               pixel_set(@, screen_y, screen_x, old # val)]
                IN  draw_cols(c2, row, vx, screen_y, col + 1)

(* draw(Vx,Vy,N): the outer loop over the rows r..n-1 of the sprite *)
RECURSIVE draw_rows(_, _, _, _, _)
draw_rows(c, vx, vy, r, n) ==
    IF r = n THEN c
    ELSE
        LET addr == c.i + r
            ysum == vy + r
        IN  IF addr > 65535 /\ overflow_checks
            THEN Panic(c, AddOverflowPanic)
            ELSE IF (addr % 65536) >= MEMORY_SIZE
            THEN Panic(c, IndexPanic)
            ELSE IF ysum > 255 /\ overflow_checks
            THEN Panic(c, AddOverflowPanic)
            ELSE
                LET row == mem(c, addr % 65536)
                    screen_y == (ysum % 256) % HEIGHT
                    c1 == draw_cols(c, row, vx, screen_y, 0)
                IN  IF c1.panic # NoPanic THEN c1
                    ELSE draw_rows(c1, vx, vy, r + 1, n)

draw(c, x, y, n) ==
    LET vx == c.registers[x]
        vy == c.registers[y]
        c0 == [c EXCEPT !.memory = mem_set(@, VF, 0)]
        c1 == draw_rows(c0, vx, vy, 0, n)
    IN  IF c1.panic # NoPanic THEN c1
        ELSE [c1 EXCEPT !.draw_flag = TRUE]

skip_if_key_pressed(c, x) ==
    IF c.registers[x] > 15 THEN Panic(c, IndexPanic)
    ELSE IF c.keys[c.registers[x]]
    THEN [c EXCEPT !.position_in_memory = @ + 2]
    ELSE c

skip_if_key_not_pressed(c, x) ==
    IF c.registers[x] > 15 THEN Panic(c, IndexPanic)
    ELSE IF ~c.keys[c.registers[x]]
    THEN [c EXCEPT !.position_in_memory = @ + 2]
    ELSE c

set_x_to_delay_timer(c, x) == [c EXCEPT !.registers[x] = c.delay_timer]

set_delay_timer_to_x(c, x) == [c EXCEPT !.delay_timer = c.registers[x]]

set_sound_timer_to_x(c, x) == [c EXCEPT !.sound_timer = c.registers[x]]

add_ix(c, x) ==
    LET sum == c.i + c.registers[x] IN
    IF sum > 65535 /\ overflow_checks
    THEN Panic(c, AddOverflowPanic)
    ELSE [c EXCEPT !.i = sum % 65536]

set_i_sprite_addr_x(c, x) == [c EXCEPT !.i = FONT_OFFSET + 5 * c.registers[x]]

(* set_bcd, had the tens digit been left as vx / 10 *)
set_bcd_tens_unreduced(c, x) ==
    LET vx == c.registers[x]
        c1 == [c EXCEPT !.memory = mem_set(@, c.i, vx \div 100)]
        c2 == [c1 EXCEPT !.memory = mem_set(@, c.i + 1, vx \div 10)]
        c3 == [c2 EXCEPT !.memory = mem_set(@, c.i + 2, (vx % 100) % 10)]
    IN  IF c.i >= MEMORY_SIZE THEN Panic(c, IndexPanic)
        ELSE IF c.i + 1 >= MEMORY_SIZE THEN Panic(c1, IndexPanic)
        ELSE IF c.i + 2 >= MEMORY_SIZE THEN Panic(c2, IndexPanic)
        ELSE c3

set_bcd(c, x) ==
    LET vx == c.registers[x]
        c1 == [c EXCEPT !.memory = mem_set(@, c.i, vx \div 100)]
        c2 == [c1 EXCEPT !.memory = mem_set(@, c.i + 1, (vx \div 10) % 10)]
        c3 == [c2 EXCEPT !.memory = mem_set(@, c.i + 2, (vx % 100) % 10)]
    IN  IF c.i >= MEMORY_SIZE THEN Panic(c, IndexPanic)
        ELSE IF c.i + 1 >= MEMORY_SIZE THEN Panic(c1, IndexPanic)
        ELSE IF c.i + 2 >= MEMORY_SIZE THEN Panic(c2, IndexPanic)
        ELSE c3

(* memory[at..at + src.len()].copy_from_slice(src) *)
mem_copy(m, at, src) ==
    LET range == at..(at + Len(src) - 1)
        nonzero == {a \in range : src[a - at + 1] # 0}
    IN  [b \in (DOMAIN m \ range) \cup nonzero |->
            IF b \in range THEN src[b - at + 1] ELSE m[b]]

(* The end of the slice i..i+x+1 of reg_dump and reg_load, or -1 when     *)
(* computing it panics.                                                    *)
slice_end(c, x) ==
    LET sum == c.i + x + 1 IN
    IF sum > 65535 /\ overflow_checks THEN -1 ELSE sum % 65536

(* reg_dump, had the slices been i..i+x and 0..x: V0..Vx-1 only *)
reg_dump_exclusive(c, x) ==
    LET end == slice_end(c, x) IN
    IF end < 0 THEN Panic(c, AddOverflowPanic)
    ELSE IF c.i > end \/ end > MEMORY_SIZE THEN Panic(c, IndexPanic)
    ELSE [c EXCEPT !.memory = mem_copy(@, c.i, [k \in 1..x |-> c.registers[k - 1]])]

reg_dump(c, x) ==
    LET end == slice_end(c, x) IN
    IF end < 0 THEN Panic(c, AddOverflowPanic)
    ELSE IF c.i > end \/ end > MEMORY_SIZE THEN Panic(c, IndexPanic)
    ELSE [c EXCEPT !.memory = mem_copy(@, c.i, [k \in 1..(x + 1) |-> c.registers[k - 1]])]

reg_load(c, x) ==
    LET end == slice_end(c, x) IN
    IF end < 0 THEN Panic(c, AddOverflowPanic)
    ELSE IF c.i > end \/ end > MEMORY_SIZE THEN Panic(c, IndexPanic)
    ELSE [c EXCEPT !.registers = [r \in 0..15 |->
                                     IF r <= x
                                     THEN mem(c, c.i + r)
                                     ELSE c.registers[r]]]

-----------------------------------------------------------------------------
(* The keyboard *)

HostKeys == {"Key1", "Key2", "Key3", "Key4", "Q", "W", "E", "R",
             "A", "S", "D", "F", "Z", "X", "C", "V"}

(* The keypad index set_keys gives a host key *)
KeyIndex(key) ==
    CASE key = "Key1" -> 1  [] key = "Key2" -> 2  [] key = "Key3" -> 3
      [] key = "Key4" -> 12 [] key = "Q" -> 4     [] key = "W" -> 5
      [] key = "E" -> 6     [] key = "R" -> 13    [] key = "A" -> 7
      [] key = "S" -> 8     [] key = "D" -> 9     [] key = "F" -> 14
      [] key = "Z" -> 10    [] key = "X" -> 0     [] key = "C" -> 11
      [] key = "V" -> 15

(* Window::update: the keys held in the next frame become current, the    *)
(* keys held until now are kept to tell a new press from a held key; when  *)
(* the script of frames is over every key is up                             *)
window_update(w) ==
    [keys_down |-> IF w.events = << >> THEN {} ELSE Head(w.events),
     keys_prev |-> w.keys_down,
     events    |-> IF w.events = << >> THEN << >> ELSE Tail(w.events)]

(* Window::get_keys_pressed(KeyRepeat::No): the keys that went down in the *)
(* current frame                                                            *)
get_keys_pressed(w) == w.keys_down \ w.keys_prev

(* set_keys: the keys of the machine after latching the frame's presses *)
set_keys(c, w) ==
    [c EXCEPT !.keys = [k \in 0..15 |->
        @[k] \/ (\E key \in (get_keys_pressed(w) \cap HostKeys) : KeyIndex(key) = k)]]

(* set_keys: its return value key_pressed *)
set_keys_result(w) == (get_keys_pressed(w) \cap HostKeys) # {}

(* set_x_to_keypress after the wait: the loop over keys 0..15 from pos on *)
RECURSIVE assign_pressed(_, _, _)
assign_pressed(c, x, pos) ==
    IF pos = 16 THEN c
    ELSE Bind(IF c.keys[pos] THEN [c EXCEPT !.registers[x] = pos] ELSE c,
              LAMBDA d : assign_pressed(d, x, pos + 1))

-----------------------------------------------------------------------------
(* The debug gate of run *)

(* The top of the loop of run: `if self.debug { wait_on_debug_input() }`,  *)
(* then emulate_cycle                                                       *)
loop_top(c) == IF c.debug THEN "wait_on_debug_input" ELSE "run"

(* wait_on_debug_input, had the last arm of its match, `_`, set             *)
(* key_pressed as well                                                      *)
debug_key_pressed_by_any(pressed) == pressed # {}

(* wait_on_debug_input: key_pressed after the for_each over the presses of *)
(* one frame                                                                *)
debug_key_pressed(pressed) == pressed \cap {"Enter", "Delete"} # {}

(* wait_on_debug_input: whether the for_each reaches std::process::exit *)
debug_exit(pressed) == "Escape" \in pressed

(* wait_on_debug_input: self.debug after the for_each *)
debug_after(c, pressed) == [c EXCEPT !.debug = @ /\ "Delete" \notin pressed]

-----------------------------------------------------------------------------
(* emulate_cycle *)

(* Whether the two bytes of the instruction at the program counter exist *)
can_fetch(c) == c.position_in_memory + 1 < MEMORY_SIZE

(* opcode = op_byte1 << 8 | op_byte2 *)
opcode_at(c) ==
    BitOr(mem(c, c.position_in_memory) * 256, mem(c, c.position_in_memory + 1))

op_x(opcode) == Shr(BitAnd(opcode, \h0F00), 8)
op_y(opcode) == Shr(BitAnd(opcode, \h00F0), 4)
op_nn(opcode) == BitAnd(opcode, \h00FF)
op_n(opcode) == BitAnd(opcode, \h000F)
op_nnn(opcode) == BitAnd(opcode, \h0FFF)

(* FX0A is the one instruction that blocks inside emulate_cycle *)
is_set_x_to_keypress(opcode) == opcode >= \hF000 /\ op_nn(opcode) = \h0A

(* unimplemented!, had the match arm been an empty block: the word is       *)
(* skipped                                                                  *)
unimplemented_ignored(c, opcode) == c

(* unimplemented!("opcode {:04x}", opcode): the arms of the match that     *)
(* take every word no instruction matches                                   *)
unimplemented(c, opcode) == Panic(c, UnimplementedPanic)

(* The match of emulate_cycle on the opcode, after the program counter has *)
(* been advanced.  FX0A is completed by the poll loop, see                  *)
(* wait_for_keypress_and_set_keys.                                          *)
execute(c, opcode, random) ==
    LET x == op_x(opcode)
        y == op_y(opcode)
        nn == op_nn(opcode)
        n == op_n(opcode)
        nnn == op_nnn(opcode)
    IN  CASE opcode = \h0000 -> c
          [] opcode = \h00E0 -> clear_screen(c)
          [] opcode = \h00EE -> ret(c)
          [] opcode >= \h1000 /\ opcode <= \h1FFF -> goto(c, nnn)
          [] opcode >= \h2000 /\ opcode <= \h2FFF -> call(c, nnn)
          [] opcode >= \h3000 /\ opcode <= \h3FFF -> skip_if_equal(c, x, nn)
          [] opcode >= \h4000 /\ opcode <= \h4FFF -> skip_if_not_equal(c, x, nn)
          [] opcode >= \h5000 /\ opcode <= \h5FF0 -> skip_xy_equal(c, x, y)
          [] opcode >= \h6000 /\ opcode <= \h6FFF -> set_xnn(c, x, nn)
          [] opcode >= \h7000 /\ opcode <= \h7FFF -> add_xnn(c, x, nn)
          [] opcode >= \h8000 /\ opcode <= \h8FFF ->
                CASE n = 0 -> assign_xy(c, x, y)
                  [] n = 1 -> or_xy(c, x, y)
                  [] n = 2 -> and_xy(c, x, y)
                  [] n = 3 -> xor_xy(c, x, y)
                  [] n = 4 -> add_xy(c, x, y)
                  [] n = 5 -> sub_xy(c, x, y)
                  [] n = 6 -> shift_right(c, x)
                  [] n = 7 -> sub_yx(c, x, y)
                  [] n = 14 -> shift_left(c, x)
                  [] OTHER -> unimplemented(c, opcode)
          [] opcode >= \h9000 /\ opcode <= \h9FF0 -> skip_xy_not_equal(c, x, y)
          [] opcode >= \hA000 /\ opcode <= \hAFFF -> set_16bit_register(c, nnn)
          [] opcode >= \hB000 /\ opcode <= \hBFFF -> jump_nnn_plus_v0(c, nnn)
          [] opcode >= \hC000 /\ opcode <= \hCFFF -> rand(c, x, nn, random)
          [] opcode >= \hD000 /\ opcode <= \hDFFF -> draw(c, x, y, n)
          [] opcode >= \hE000 /\ opcode <= \hEFFF ->
                CASE nn = \h9E -> skip_if_key_pressed(c, x)
                  [] nn = \hA1 -> skip_if_key_not_pressed(c, x)
                  [] OTHER -> unimplemented(c, opcode)
          [] opcode >= \hF000 /\ opcode <= \hFFFF ->
                CASE nn = \h07 -> set_x_to_delay_timer(c, x)
                  [] nn = \h0A -> c
                  [] nn = \h15 -> set_delay_timer_to_x(c, x)
                  [] nn = \h18 -> set_sound_timer_to_x(c, x)
                  [] nn = \h1E -> add_ix(c, x)
                  [] nn = \h29 -> set_i_sprite_addr_x(c, x)
                  [] nn = \h33 -> set_bcd(c, x)
                  [] nn = \h55 -> reg_dump(c, x)
                  [] nn = \h65 -> reg_load(c, x)
                  [] OTHER -> unimplemented(c, opcode)
          [] OTHER -> unimplemented(c, opcode)

(* execution_finished, had the arm matched on the first byte of the word   *)
(* alone                                                                    *)
execution_finished_by_high_byte(opcode) == opcode \div 256 = 0

(* The value emulate_cycle returns: execution_finished, set by the arm     *)
(* 0x0000 only                                                              *)
execution_finished(opcode) == opcode = \h0000

(* The machine after emulate_cycle (up to the poll loop, for FX0A) *)
emulate_cycle(c, random) ==
    IF ~can_fetch(c) THEN Panic(c, IndexPanic)
    ELSE Bind(opcode_at(c),
              LAMBDA opcode :
                  execute([c EXCEPT !.position_in_memory = @ + 2], opcode, random))

(* draw_graphics presents the display: update_with_buffer also advances    *)
(* the window to its next frame.                                            *)
draw_graphics(w) == window_update(w)

(* The rest of one iteration of the loop of run, after an emulate_cycle    *)
(* that returned false: draw_graphics if the draw flag is set, set_keys    *)
after_cycle_window(c, w) ==
    window_update(IF c.draw_flag THEN draw_graphics(w) ELSE w)

after_cycle_machine(c, w) ==
    set_keys(c, IF c.draw_flag THEN draw_graphics(w) ELSE w)

-----------------------------------------------------------------------------
(* The loader.  A program file is a sequence of segments, each a start     *)
(* address and the 16-bit words stored from it on; the file holds zero     *)
(* bytes everywhere else.                                                   *)

fonts ==
    << \hF0, \h90, \h90, \h90, \hF0, \h20, \h60, \h20, \h20, \h70, \hF0, \h10, \hF0, \h80,
       \hF0, \hF0, \h10, \hF0, \h10, \hF0, \h90, \h90, \hF0, \h10, \h10, \hF0, \h80, \hF0,
       \h10, \hF0, \hF0, \h80, \hF0, \h90, \hF0, \hF0, \h10, \h20, \h40, \h40, \hF0, \h90,
       \hF0, \h90, \hF0, \hF0, \h90, \hF0, \h10, \hF0, \hF0, \h90, \hF0, \h90, \h90, \hE0,
       \h90, \hE0, \h90, \hE0, \hF0, \h80, \h80, \h80, \hF0, \hE0, \h90, \h90, \h90, \hE0,
       \hF0, \h80, \hF0, \h80, \hF0, \hF0, \h80, \hF0, \h80, \h80 >>

load_fonts(c) ==
    [c EXCEPT !.memory = mem_copy(@, FONT_OFFSET, fonts)]

(* The bytes of a sequence of big-endian words *)
word_bytes(ws) ==
    [k \in 1..(2 * Len(ws)) |->
        IF k % 2 = 1 THEN ws[(k + 1) \div 2] \div 256 ELSE ws[k \div 2] % 256]

(* memory[0x200..].copy_from_slice(&buffer), segment by segment: the rest  *)
(* of the 3584-byte buffer is zero, as is the memory it overwrites          *)
RECURSIVE copy_segments(_, _, _)
copy_segments(m, file, k) ==
    IF k > Len(file) THEN m
    ELSE copy_segments(mem_copy(m, file[k].at, word_bytes(file[k].words)), file, k + 1)

(* What File::open and file.read make of the path: the file is read, or   *)
(* one of the two fails                                                     *)
IoOk == "Ok"
OpenError == "Error opening file"
ReadError == "Error reading file"

load_into_memory(c, file, io) ==
    LET c1 == load_fonts(c) IN
    IF io = IoOk
    THEN [c1 EXCEPT !.memory = copy_segments(@, file, 1)]
    ELSE c1

(* load_into_memory: the line it prints, if any *)
load_error(io) == IF io = IoOk THEN "" ELSE io

-----------------------------------------------------------------------------
(* The inputs: program files and the key presses of the host, frame by     *)
(* frame.                                                                   *)

MaxNest == 3
MaxFrames == 3

SET(x, nn) == \h6000 + x * 256 + nn
ADDI(x, nn) == \h7000 + x * 256 + nn
ALU(x, y, n) == \h8000 + x * 256 + y * 16 + n
SKIPEQ(x, nn) == \h3000 + x * 256 + nn
CALL(nnn) == \h2000 + nnn
RET == \h00EE
HALT == \h0000
LDI(nnn) == \hA000 + nnn
DRAW(x, y, n) == \hD000 + x * 256 + y * 16 + n
DUMP(x) == \hF055 + x * 256
WAITKEY(x) == \hF00A + x * 256
ADDIX(x) == \hF01E + x * 256
SKIPKEY(x) == \hE09E + x * 256
JMP(nnn) == \h1000 + nnn
GETDT(x) == \hF007 + x * 256
SETDT(x) == \hF015 + x * 256
SETST(x) == \hF018 + x * 256
SKIPNOKEY(x) == \hE0A1 + x * 256
BCD(x) == \hF033 + x * 256
LOAD(x) == \hF065 + x * 256

At(addr, ws) == [at |-> addr, words |-> ws]

RegVals == {0, 1, 127, 128, 200, 255}
RegPairs == {<<0, 1>>, <<1, 0>>, <<2, 14>>}
AluOps == {4, 5, 6, 14}

(* Vx := a; Vy := b; one 8XYn instruction *)
AluFiles ==
    {<< At(\h200, <<SET(p[1], a), SET(p[2], b), ALU(p[1], p[2], n)>>) >> :
        p \in RegPairs, a \in RegVals, b \in RegVals, n \in AluOps}

(* The same with V0, V1 first dumped to memory[0..1] *)
AluDumpFiles ==
    {<< At(\h200, <<SET(0, a), SET(1, b), LDI(0), DUMP(1), ALU(0, 1, n)>>) >> :
        a \in {1, 200}, b \in {1, 255}, n \in AluOps}

DrawXs == {0, 60, 63, 250}
DrawYs == {0, 30, 250}
SpriteAddrs == {\h050, \h055}
SpriteRows == {1, 5}

(* One draw of a font sprite at (vx, vy) *)
DrawOnceFiles ==
    {<< At(\h200, <<SET(0, vx), SET(1, vy), LDI(addr), DRAW(0, 1, n)>>) >> :
        vx \in DrawXs, vy \in DrawYs, addr \in SpriteAddrs, n \in SpriteRows}

(* A draw at (vx, vy), then a sprite drawn twice in succession at (vx2, vy) *)
DrawTwiceFiles ==
    {<< At(\h200, <<SET(0, vx), SET(1, vy), LDI(addr), DRAW(0, 1, n),
                    SET(0, vx2), LDI(addr2), DRAW(0, 1, n), DRAW(0, 1, n)>>) >> :
        vx \in DrawXs, vx2 \in DrawXs, vy \in {0, 30}, addr \in SpriteAddrs,
        addr2 \in SpriteAddrs, n \in SpriteRows}

(* Glyph 0 at (0, 0), then a sprite that lies across memory[0x0F] drawn    *)
(* twice in succession over it                                              *)
DrawLowFiles ==
    {<< At(\h200, <<SET(0, v), LDI(addr), DUMP(0), SET(0, 0), LDI(\h050),
                    DRAW(0, 1, 5), LDI(addr), DRAW(0, 1, n), DRAW(0, 1, n)>>) >> :
        v \in {\h81, \hFF}, addr \in {\h00D, \h00E, \h00F}, n \in {2, 3}}

(* testbin/stack_math.chip8, as test_load_into_memory reads it back *)
StackMathFile ==
    << At(\h200, <<SET(0, 5), SET(1, 10), CALL(\h300), CALL(\h300)>>),
       At(\h300, <<ALU(0, 1, 4), ALU(0, 1, 4), RET>>) >>

(* d subroutines, each calling the next *)
ChainFile(d) ==
    << At(\h200, <<CALL(\h300)>>) >> \o
    [k \in 1..d |->
        At(\h300 + 16 * (k - 1),
           IF k < d THEN <<CALL(\h300 + 16 * k), ADDI(0, 1), RET>>
                    ELSE <<ADDI(0, 1), RET>>)]

(* A subroutine that calls itself until d calls are active, then returns *)
RecurseFile(d) ==
    << At(\h200, <<CALL(\h206), HALT, HALT,
                   ADDI(0, 1), SKIPEQ(0, d), CALL(\h206), RET>>) >>

NestDepths == (1..MaxNest) \cup {STACK_SIZE, STACK_SIZE + 1}

CallFiles ==
    {StackMathFile, << At(\h200, <<CALL(\h200)>>) >>}
    \cup {ChainFile(d) : d \in 1..MaxNest}
    \cup {RecurseFile(d) : d \in NestDepths}

(* 00EE with no call active: at once, and after a call has returned *)
UnderflowFiles ==
    {<< At(\h200, <<RET>>) >>,
     << At(\h200, <<CALL(\h204), RET, RET>>) >>,
     << At(\h200, <<CALL(\h300), RET>>), At(\h300, <<SET(0, 1), RET>>) >>}

(* FX0A at once, and FX0A after two instructions *)
KeyFiles ==
    {<< At(\h200, <<WAITKEY(x)>>) >> : x \in {0, 3}}
    \cup {<< At(\h200, <<SET(1, 5), SET(2, 1), WAITKEY(x)>>) >> : x \in {0, 3}}

(* V0 := a key; two more instructions while frames go by; EX9E or EXA1 on *)
(* that key; the instruction it may skip                                    *)
KeySkipFiles ==
    {<< At(\h200, <<SET(0, k), SET(1, 0), SET(1, 0), op, SET(2, 1)>>) >> :
        k \in {1, 5}, op \in {SKIPKEY(0), SKIPNOKEY(0)}}

(* Vx := a value at and past the last key index; EX9E or EXA1 on it; the   *)
(* instruction it may skip                                                  *)
KeyIndexVals == {15, 16, 255}

KeyRangeFiles ==
    {<< At(\h200, <<SET(x, k), SKIPKEY(x), SET(2, 1)>>) >> :
        x \in {0, 3}, k \in KeyIndexVals}
    \cup {<< At(\h200, <<SET(x, k), SKIPNOKEY(x), SET(2, 1)>>) >> :
             x \in {0, 3}, k \in KeyIndexVals}

(* Vx := a; Vy := b; a word of family 0x5 or 0x9 with low nibble n; the    *)
(* two instructions after it                                                *)
SkipPairs == {<<0, 1>>, <<3, 3>>, <<14, 15>>, <<15, 15>>}
SkipVals == {0, 7, 255}
LowNibbles == {0, 1, 15}

SkipXYFiles ==
    {<< At(\h200, <<SET(p[1], a), SET(p[2], b),
                    fam * 4096 + p[1] * 256 + p[2] * 16 + n,
                    SET(7, 1), SET(8, 1)>>) >> :
        p \in SkipPairs, a \in {0, 7}, b \in {0, 7}, fam \in {5, 9}, n \in LowNibbles}

(* I := 0x300; Vx := a; 3XNN or 4XNN; the two instructions after it *)
SkipNNFiles ==
    {<< At(\h200, <<LDI(\h300), SET(x, a), fam * 4096 + x * 256 + nn,
                    SET(7, 1), SET(8, 1)>>) >> :
        x \in {0, 15}, a \in SkipVals, nn \in SkipVals, fam \in {3, 4}}

(* The delay timer set to t, then read until it is 0; the sound timer set  *)
(* to t while three more instructions run                                   *)
TimerVals == {0, 1, 3}

TimerFiles ==
    {<< At(\h200, <<SET(0, t), SETDT(0), GETDT(1), SKIPEQ(1, 0), JMP(\h204)>>) >> :
        t \in TimerVals}
    \cup {<< At(\h200, <<SET(0, t), SETST(0), SET(1, 1), SET(1, 2), SET(1, 3)>>) >> :
             t \in TimerVals}

(* VF := 9; Vx := a; 7XNN *)
AddImmediates == {0, 1, 128, 255}

AddXnnFiles ==
    {<< At(\h200, <<SET(VF, 9), SET(x, a), ADDI(x, nn)>>) >> :
        x \in {0, 3, VF}, a \in RegVals, nn \in AddImmediates}

(* Vx := v; I := a; FX33 *)
BcdVals == {0, 7, 99, 100, 238, 255}
BcdAddrs == {\h00D, \h050, \h300, \hFFD}

BcdFiles ==
    {<< At(\h200, <<SET(x, v), LDI(a), BCD(x)>>) >> :
        x \in {0, 3}, v \in BcdVals, a \in BcdAddrs}

(* Words that no arm of the match names, each fetched after two             *)
(* instructions                                                             *)
InvalidWords ==
    {\h0001, \h00E1, \h00EF, \h0123, \h0FFF, \h8008, \h812F, \h8AB9,
     \hE000, \hE19F, \hE2A0, \hF000, \hF108, \hF2FF, \hF356, \hF466}

InvalidFiles ==
    {<< At(\h200, <<SET(0, 7), LDI(\h300), w>>) >> : w \in InvalidWords}

(* DXYN, FX33, FX55 and FX65 with the index register at the top of memory *)
TopFiles ==
    {<< At(\h200, <<SET(0, vx), SET(1, 0), LDI(a), DRAW(0, 1, n)>>) >> :
        vx \in {0, 250}, a \in {\hFFE, \hFFF}, n \in 1..3}
    \cup {<< At(\h200, <<SET(0, 238), LDI(a), BCD(0)>>) >> :
             a \in {\hFFC, \hFFD, \hFFE, \hFFF}}
    \cup {<< At(\h200, <<SET(0, 1), SET(1, 2), SET(2, 3), LDI(a), op>>) >> :
             a \in {\hFFD, \hFFE, \hFFF}, op \in {DUMP(0), DUMP(2), LOAD(0), LOAD(2)}}

(* The same with the index register moved past memory by FX1E: to 4096,    *)
(* and to 65535 by 241 additions                                            *)
IndexedOps == {DRAW(0, 1, 0), DRAW(0, 1, 2), BCD(0), DUMP(0), DUMP(1), LOAD(0), LOAD(1)}

PastFiles ==
    {<< At(\h200, <<LDI(\hFFF), SET(0, 1), ADDIX(0), SET(0, 0), op>>) >> :
        op \in IndexedOps}
    \cup {<< At(\h200, <<LDI(\hFFF), SET(0, 255)>> \o [k \in 1..240 |-> ADDIX(0)]
                         \o <<SET(0, 240), ADDIX(0), SET(0, 0), op>>) >> :
             op \in {DRAW(0, 1, 2), BCD(0), DUMP(0), LOAD(1)}}

(* I := a; VF := 9; Vx := v; FX1E.  And the same with the index register  *)
(* first moved to 65535 by 241 additions                                    *)
AddIxVals == {0, 1, 255}

AddIxFiles ==
    {<< At(\h200, <<LDI(a), SET(VF, 9), SET(x, v), ADDIX(x)>>) >> :
        a \in {\h000, \hFFF}, x \in {0, VF}, v \in AddIxVals}
    \cup {<< At(\h200, <<LDI(\hFFF), SET(0, 255)>> \o [k \in 1..240 |-> ADDIX(0)]
                         \o <<SET(0, 240), ADDIX(0), SET(0, v), ADDIX(0)>>) >> :
             v \in AddIxVals}

(* V0, V1, V2, VF := 7, 0, 200, 9; I := a; FX55; V0, V1 := 1, 1; FX65.     *)
(* The same up to the last address, and FX65 alone over the font table      *)
DumpXs == {0, 1, 2, 15}
DumpAddrs == {\h00D, \h050, \h300}

DumpLoadFile(x, a) ==
    << At(\h200, <<SET(0, 7), SET(1, 0), SET(2, 200), SET(VF, 9), LDI(a),
                   DUMP(x), SET(0, 1), SET(1, 1), LOAD(x)>>) >>

RoundTripFile(x, a) ==
    << At(\h200, <<SET(0, 7), SET(1, 0), SET(2, 200), SET(VF, 9), LDI(a),
                   DUMP(x), LOAD(x)>>) >>

DumpLoadFiles ==
    {DumpLoadFile(x, a) : x \in DumpXs, a \in DumpAddrs}
    \cup {RoundTripFile(x, a) : x \in DumpXs, a \in DumpAddrs}
    \cup {RoundTripFile(x, MEMORY_SIZE - 1 - x) : x \in DumpXs}
    \cup {<< At(\h200, <<SET(VF, 9), LDI(\h050), LOAD(x)>>) >> : x \in DumpXs}

KeyFrames == {{}, {"Key1", "Key2"}, {"W"}, {"Enter"}}

RECURSIVE FrameSeqs(_)
FrameSeqs(len) ==
    IF len = 0 THEN {<< >>}
    ELSE LET shorter == FrameSeqs(len - 1)
         IN  shorter \cup {Append(fs, f) : fs \in {g \in shorter : Len(g) = len - 1},
                                            f \in KeyFrames}

(* The scripts in which W alone is pressed, held or released *)
HeldSeqs ==
    {fs \in FrameSeqs(MaxFrames) : \A j \in 1..Len(fs) : fs[j] \in {{}, {"W"}}}

(* The keys of the debug gate, and one it ignores *)
DebugFrames == {{}, {"Enter"}, {"Escape"}, {"Delete"}, {"W"}, {"Enter", "Escape"}}

MaxDebugFrames == 3

DebugSeqs == UNION {[1..len -> DebugFrames] : len \in 0..MaxDebugFrames}

(* Three instructions; a draw and two instructions *)
DebugStepFiles ==
    {<< At(\h200, <<SET(0, 1), ADDI(0, 1), ADDI(0, 1)>>) >>}

DebugFiles ==
    DebugStepFiles \cup {<< At(\h200, <<LDI(\h050), DRAW(0, 0, 1), SET(1, 1)>>) >>}

(* The runs of files with the debug gate on *)
DebugScenarios(files) ==
    {[file |-> f, events |-> ev, debug |-> TRUE, io |-> IoOk] :
        f \in files, ev \in DebugSeqs}

(* The runs whose file cannot be opened, or cannot be read *)
FailedLoadScenarios ==
    {[file |-> f, events |-> << >>, debug |-> d, io |-> io] :
        f \in {StackMathFile}, d \in BOOLEAN, io \in {OpenError, ReadError}}

Scenarios ==
    {[file |-> f, events |-> << >>, debug |-> FALSE, io |-> IoOk] :
        f \in AluFiles \cup AluDumpFiles \cup DrawOnceFiles \cup DrawTwiceFiles
              \cup DrawLowFiles \cup CallFiles \cup InvalidFiles
              \cup TopFiles \cup PastFiles \cup AddXnnFiles
              \cup UnderflowFiles \cup BcdFiles \cup TimerFiles
              \cup KeyRangeFiles \cup SkipXYFiles \cup SkipNNFiles
              \cup AddIxFiles \cup DumpLoadFiles}
    \cup {[file |-> f, events |-> ev, debug |-> FALSE, io |-> IoOk] : f \in KeyFiles, ev \in FrameSeqs(MaxFrames)}
    \cup {[file |-> f, events |-> ev, debug |-> FALSE, io |-> IoOk] : f \in KeySkipFiles, ev \in HeldSeqs}
    \cup DebugScenarios(DebugFiles)
    \cup FailedLoadScenarios

(* The scenarios whose runs are followed to their end: the programs that  *)
(* call, return and add, that set and read the timers, that wait for a     *)
(* key, that run behind the debug gate or after a failed load              *)
LiveScenarios ==
    {[file |-> f, events |-> << >>, debug |-> FALSE, io |-> IoOk] :
        f \in CallFiles \cup UnderflowFiles \cup AddXnnFiles \cup TimerFiles}
    \cup {[file |-> f, events |-> ev, debug |-> FALSE, io |-> IoOk] : f \in KeyFiles, ev \in FrameSeqs(MaxFrames)}
    \cup DebugScenarios(DebugStepFiles)
    \cup FailedLoadScenarios

RandomBytes == {\h00, \h5A, \hFF}

-----------------------------------------------------------------------------
(* The state machine *)

(* load_and_run of one of the scenarios of S, on a machine whose debug     *)
(* field the caller has set, up to the loop of run                          *)
load_and_run(S) ==
    /\ \E s \in S :
          /\ chip8 = load_into_memory([new EXCEPT !.debug = s.debug], s.file, s.io)
          /\ window = [keys_down |-> {}, keys_prev |-> {}, events |-> s.events]
          /\ stderr = load_error(s.io)
    /\ loc = loop_top(chip8)
    /\ local_x = 0
    /\ overflow_checks \in BOOLEAN
    /\ calls = << >>
    /\ prev = [opcode |-> -1, display |-> new.display,
               registers |-> new.registers, i |-> new.i]

Init == load_and_run(Scenarios)

(* The history of active calls after the instruction at the program        *)
(* counter has run and left the machine as c1                               *)
calls_after(c, c1) ==
    IF ~can_fetch(c) \/ c1.panic # NoPanic THEN calls
    ELSE IF opcode_at(c) >= \h2000 /\ opcode_at(c) <= \h2FFF
    THEN Append(calls, <<c.position_in_memory, c.stack_pointer>>)
    ELSE IF opcode_at(c) = \h00EE /\ calls # << >>
    THEN SubSeq(calls, 1, Len(calls) - 1)
    ELSE calls

(* The history of the instruction at the program counter of c *)
fetched(c) ==
    [opcode |-> IF can_fetch(c) THEN opcode_at(c) ELSE -1,
     display |-> c.display, registers |-> c.registers, i |-> c.i]

(* One iteration of the loop of run, for every instruction but FX0A *)
run ==
    /\ loc = "run"
    /\ ~(can_fetch(chip8) /\ is_set_x_to_keypress(opcode_at(chip8)))
    /\ \E random \in RandomBytes :
        LET c1 == emulate_cycle(chip8, random) IN
        /\ calls' = calls_after(chip8, c1)
        /\ prev' = fetched(chip8)
        /\ IF c1.panic # NoPanic
           THEN /\ chip8' = c1
                /\ loc' = "panicked"
                /\ window' = window
           ELSE IF execution_finished(opcode_at(chip8))
           THEN /\ chip8' = c1
                /\ loc' = "finished"
                /\ window' = window
           ELSE /\ chip8' = after_cycle_machine(c1, window)
                /\ window' = after_cycle_window(c1, window)
                /\ loc' = loop_top(c1)
    /\ UNCHANGED <<local_x, overflow_checks, stderr>>

(* The iteration of run that fetches FX0A, up to the poll loop:            *)
(* emulate_cycle, set_x_to_keypress, the window.update() that opens        *)
(* wait_for_keypress_and_set_keys                                           *)
set_x_to_keypress ==
    /\ loc = "run"
    /\ can_fetch(chip8)
    /\ is_set_x_to_keypress(opcode_at(chip8))
    /\ chip8' = [chip8 EXCEPT !.position_in_memory = @ + 2]
    /\ window' = window_update(window)
    /\ loc' = "wait_for_keypress"
    /\ local_x' = op_x(opcode_at(chip8))
    /\ prev' = fetched(chip8)
    /\ UNCHANGED <<overflow_checks, calls, stderr>>

(* One iteration of the poll loop; when set_keys reports a key, the rest   *)
(* of set_x_to_keypress and of the iteration of run                         *)
wait_for_keypress_and_set_keys ==
    /\ loc = "wait_for_keypress"
    /\ LET key_pressed == set_keys_result(window)
           c1 == set_keys(chip8, window)
           w1 == window_update(window)
           c2 == assign_pressed(c1, local_x, 0)
       IN  IF ~key_pressed
           THEN /\ chip8' = c1
                /\ window' = w1
                /\ UNCHANGED <<loc, local_x>>
           ELSE /\ chip8' = after_cycle_machine(c2, w1)
                /\ window' = after_cycle_window(c2, w1)
                /\ loc' = loop_top(c2)
                /\ local_x' = 0
    /\ UNCHANGED <<overflow_checks, calls, prev, stderr>>

(* One iteration of the poll loop of the debug gate: Escape ends the       *)
(* process, Enter or Delete lets run go on to emulate_cycle, Delete turns   *)
(* the gate off                                                             *)
wait_on_debug_input ==
    /\ loc = "wait_on_debug_input"
    /\ LET w1 == window_update(window)
           pressed == get_keys_pressed(w1)
       IN  /\ window' = w1
           /\ chip8' = debug_after(chip8, pressed)
           /\ loc' = IF debug_exit(pressed) THEN "exited"
                     ELSE IF debug_key_pressed(pressed) THEN "run"
                     ELSE "wait_on_debug_input"
    /\ UNCHANGED <<local_x, overflow_checks, calls, prev, stderr>>

Next ==
    \/ run
    \/ set_x_to_keypress
    \/ wait_for_keypress_and_set_keys
    \/ wait_on_debug_input

Spec == Init /\ [][Next]_vars

(* The thread of run is the only one and is never descheduled for good: a  *)
(* loop iteration that can be taken is taken.                               *)
LiveInit == load_and_run(LiveScenarios)

LiveSpec == LiveInit /\ [][Next]_vars /\ WF_vars(Next)

-----------------------------------------------------------------------------
(* What the claims speak of: the instruction about to be executed *)

Fetching == loc = "run" /\ can_fetch(chip8)
Op == opcode_at(chip8)
X == op_x(Op)
Y == op_y(Op)
Vx == chip8.registers[X]
Vy == chip8.registers[Y]
IsAlu(n) == Fetching /\ Op >= \h8000 /\ Op <= \h8FFF /\ op_n(Op) = n
IsDraw == Fetching /\ Op >= \hD000 /\ Op <= \hDFFF
IsCall == Fetching /\ Op >= \h2000 /\ Op <= \h2FFF
IsRet == Fetching /\ Op = \h00EE

(* C1: 8XY4 (x # 15) leaves Vx = (a + b) mod 256 and VF = 1 if a + b > 255, *)
(* else 0.                                                                  *)
C1_CarryAdd ==
    [][(IsAlu(4) /\ X # VF) =>
          /\ chip8'.panic = NoPanic
          /\ chip8'.registers[X] = (Vx + Vy) % 256
          /\ chip8'.registers[VF] = (IF Vx + Vy > 255 THEN 1 ELSE 0)]_vars

(* C2: 8XY5 (x # 15) never aborts, leaves Vx = (a - b) mod 256 and VF = 1   *)
(* iff a > b.                                                               *)
C2_SubBorrow ==
    [][(IsAlu(5) /\ X # VF) =>
          /\ chip8'.panic = NoPanic
          /\ chip8'.registers[X] = (Vx - Vy) % 256
          /\ chip8'.registers[VF] = (IF Vx > Vy THEN 1 ELSE 0)]_vars

(* C3: after DXYN, VF is 1 if some pixel went from on to off during the    *)
(* draw, and 0 if none did.                                                 *)
C3_DrawCollisionFlag ==
    [][(IsDraw /\ chip8'.panic = NoPanic) =>
          chip8'.registers[VF] =
              (IF chip8.display \ chip8'.display # {} THEN 1 ELSE 0)]_vars

(* The pixels DXYN is to toggle: bit c, most significant first, of          *)
(* memory[I + r] goes to column (Vx + c) mod 64 of row (Vy + r) mod 32      *)
SpritePixels ==
    {<<(Vy + r) % HEIGHT, (Vx + col) % WIDTH>> :
        <<r, col>> \in {rc \in (0..(op_n(Op) - 1)) \X (0..7) :
                          (mem(chip8, chip8.i + rc[1]) \div Pow2(7 - rc[2])) % 2 = 1}}

(* C4: for every Vx, Vy, DXYN XORs the sprite into the display with both    *)
(* coordinates wrapped, changes no other pixel and does not abort.          *)
C4_DrawWraps ==
    [][(IsDraw /\ chip8.i + op_n(Op) <= MEMORY_SIZE) =>
          /\ chip8'.panic = NoPanic
          /\ chip8'.display =
                (chip8.display \ SpritePixels) \cup (SpritePixels \ chip8.display)]_vars

(* The instruction about to run repeats the one before it, operands and all *)
RepeatsDraw ==
    /\ IsDraw
    /\ prev.opcode = Op
    /\ prev.registers = chip8.registers
    /\ prev.i = chip8.i
    /\ chip8.i + op_n(Op) <= MEMORY_SIZE

(* C5: the same DXYN executed twice in succession leaves every pixel as it  *)
(* was before the first of the two draws.                                   *)
C5_DrawTwiceRestores ==
    [][(RepeatsDraw /\ chip8'.panic = NoPanic) => chip8'.display = prev.display]_vars

(* C5 witness: a sprite from below address 0x10 has been drawn twice in     *)
(* succession over lit pixels, and the first draw had changed the display.  *)
C5_Witness ==
    /\ loc = "run"
    /\ prev.opcode >= \hD000 /\ prev.opcode <= \hDFFF
    /\ prev.i < 16
    /\ chip8.position_in_memory >= PROGRAM_START + 4
    /\ mem(chip8, chip8.position_in_memory - 4) * 256
          + mem(chip8, chip8.position_in_memory - 3) = prev.opcode
    /\ mem(chip8, chip8.position_in_memory - 2) * 256
          + mem(chip8, chip8.position_in_memory - 1) = prev.opcode
    /\ chip8.display # {}
    /\ chip8.display # prev.display

(* C6: 2NNN with 16 return addresses on the stack ends the run with the     *)
(* stack-overflow error and pushes nothing; with fewer it succeeds.         *)
C6_CallOverflow ==
    [][IsCall =>
          IF chip8.stack_pointer >= STACK_SIZE
          THEN /\ chip8'.panic = StackOverflowPanic
               /\ chip8'.stack = chip8.stack
               /\ chip8'.stack_pointer = chip8.stack_pointer
          ELSE /\ chip8'.panic = NoPanic
               /\ chip8'.stack_pointer = chip8.stack_pointer + 1]_vars

(* C7: the 00EE that matches a 2NNN fetched from B leaves the program       *)
(* counter at B + 2 and the stack as deep as it was before that call;       *)
(* nested calls are matched last-called-first-returned.                     *)
C7_CallRetRoundTrip ==
    [][(IsRet /\ calls # << >>) =>
          /\ chip8'.panic = NoPanic
          /\ chip8'.position_in_memory = calls[Len(calls)][1] + 2
          /\ chip8'.stack_pointer = calls[Len(calls)][2]]_vars

(* C7 witness: a return from a nested call has resumed its caller, itself   *)
(* a subroutine, right after the call.                                      *)
C7_Witness ==
    /\ loc = "run"
    /\ prev.opcode = \h00EE
    /\ chip8.stack_pointer >= 1
    /\ Len(calls) = chip8.stack_pointer
    /\ mem(chip8, chip8.position_in_memory - 2) \div 16 = 2

(* The keys the latch holds when the poll loop of FX0A looks at it *)
Latched == {k \in 0..15 : set_keys(chip8, window).keys[k]}

Lowest(S) == CHOOSE k \in S : \A j \in S : k <= j

(* C8: when FX0A completes with several keys in the latch, Vx is the        *)
(* lowest pressed key index.                                                *)
C8_LowestKeyWins ==
    [][(loc = "wait_for_keypress" /\ loc' = "run") =>
          chip8'.registers[local_x] = Lowest(Latched)]_vars

(* C9: FX0A stays suspended, Vx and the program counter untouched, exactly  *)
(* while the latch holds no pressed key, and completes as soon as the latch *)
(* holds one, a key latched before FX0A began included.                     *)
C9_KeyWaitSuspends ==
    [][loc = "wait_for_keypress" =>
          IF Latched = {}
          THEN /\ loc' = "wait_for_keypress"
               /\ chip8'.registers = chip8.registers
               /\ chip8'.position_in_memory = chip8.position_in_memory
          ELSE loc' = "run"]_vars

(* C10: 8XY6 leaves VF = the old bit 0 of Vx and Vx = old Vx >> 1; 8XYE     *)
(* leaves VF = the old bit 7 of Vx and Vx = (old Vx << 1) mod 256.          *)
C10_ShiftFlags ==
    [][/\ (IsAlu(6) /\ X # VF) =>
              /\ chip8'.registers[VF] = Vx % 2
              /\ chip8'.registers[X] = Vx \div 2
       /\ (IsAlu(14) /\ X # VF) =>
              /\ chip8'.registers[VF] = Vx \div 128
              /\ chip8'.registers[X] = (Vx * 2) % 256]_vars

(* The words the instruction set gives no meaning *)
NoInstruction(opcode) ==
    \/ opcode >= \h0001 /\ opcode <= \h0FFF /\ opcode \notin {\h00E0, \h00EE}
    \/ opcode >= \h8000 /\ opcode <= \h8FFF /\ op_n(opcode) \notin (0..7) \cup {14}
    \/ opcode >= \hE000 /\ opcode <= \hEFFF /\ op_nn(opcode) \notin {\h9E, \hA1}
    \/ opcode >= \hF000 /\ opcode <= \hFFFF
          /\ op_nn(opcode) \notin {\h07, \h0A, \h15, \h18, \h1E, \h29, \h33, \h55, \h65}

(* C11: a fetched word that matches no instruction ends the run with the    *)
(* invalid-opcode error; nothing but the program counter, already advanced  *)
(* past the word, has changed, so it ran neither as a no-op nor as another  *)
(* instruction.                                                             *)
C11_InvalidOpcode ==
    [][(Fetching /\ NoInstruction(Op)) =>
          /\ loc' = "panicked"
          /\ chip8'.panic = UnimplementedPanic
          /\ [chip8' EXCEPT !.panic = NoPanic, !.position_in_memory = 0]
                = [chip8 EXCEPT !.position_in_memory = 0]]_vars

(* C11 witness: the run has ended on a word of the 0x0, 0x8, 0xE or 0xF     *)
(* family that is no instruction.                                           *)
C11_Witness ==
    /\ loc = "panicked"
    /\ chip8.panic = UnimplementedPanic
    /\ prev.opcode >= 0
    /\ NoInstruction(prev.opcode)
    /\ chip8.registers[0] = 7

IsBcd == Fetching /\ Op >= \hF000 /\ op_nn(Op) = \h33
IsRegDump == Fetching /\ Op >= \hF000 /\ op_nn(Op) = \h55
IsRegLoad == Fetching /\ Op >= \hF000 /\ op_nn(Op) = \h65

(* The number of memory cells, from memory[I] on, the instruction about to  *)
(* run is to access                                                         *)
AccessLength ==
    IF IsDraw THEN op_n(Op)
    ELSE IF IsBcd THEN 3
    ELSE IF IsRegDump \/ IsRegLoad THEN X + 1
    ELSE 0

(* C12: DXYN, FX33, FX55 and FX65 whose access from memory[I] on reaches    *)
(* past address 4095 end the run with the out-of-bounds error, and memory   *)
(* has no cell outside 0..4095.                                             *)
C12_IndexRangeChecked ==
    [][(AccessLength >= 1 /\ chip8.i + AccessLength > MEMORY_SIZE) =>
          /\ loc' = "panicked"
          /\ chip8'.panic = IndexPanic
          /\ DOMAIN chip8'.memory \subseteq 0..(MEMORY_SIZE - 1)]_vars

IsAddXnn == Fetching /\ Op >= \h7000 /\ Op <= \h7FFF

(* C13: 7XNN does not abort, leaves Vx = (a + nn) mod 256 and every other   *)
(* register, VF included, as it was.                                        *)
C13_AddImmediate ==
    [][IsAddXnn =>
          /\ chip8'.panic = NoPanic
          /\ chip8'.registers =
                [chip8.registers EXCEPT ![X] = (Vx + op_nn(Op)) % 256]]_vars

(* C13 witness: 7XNN on a register other than VF has wrapped past 255 and   *)
(* VF still holds what the program put there.                               *)
C13_Witness ==
    /\ loc = "run"
    /\ prev.opcode >= \h7000 /\ prev.opcode <= \h7FFF
    /\ op_x(prev.opcode) # VF
    /\ prev.registers[op_x(prev.opcode)] + op_nn(prev.opcode) > 255
    /\ chip8.registers[op_x(prev.opcode)]
          = prev.registers[op_x(prev.opcode)] + op_nn(prev.opcode) - 256
    /\ chip8.registers[VF] = 9

(* C14: 00EE with the call stack empty ends the run with the               *)
(* stack-underflow error; the depth stays 0, the stack is untouched and the *)
(* program counter is only past the instruction, not at a stored address.   *)
C14_RetUnderflow ==
    [][(IsRet /\ chip8.stack_pointer = 0) =>
          /\ loc' = "panicked"
          /\ chip8'.panic = StackUnderflowPanic
          /\ chip8'.stack_pointer = 0
          /\ chip8'.stack = chip8.stack
          /\ chip8'.position_in_memory = chip8.position_in_memory + 2]_vars

(* C14 witness: the run has ended on a 00EE fetched after an earlier call   *)
(* had returned and left its address in the stack.                          *)
C14_Witness ==
    /\ loc = "panicked"
    /\ chip8.panic = StackUnderflowPanic
    /\ prev.opcode = \h00EE
    /\ chip8.stack_pointer = 0
    /\ chip8.stack[0] # 0

(* The machine right after load_into_memory of the stack_math image *)
StackMathLoaded ==
    /\ loc = "run"
    /\ chip8 = load_into_memory(new, StackMathFile, IoOk)

(* C15: from the loaded stack_math image (SET V0,5; SET V1,10; CALL 0x300;  *)
(* CALL 0x300 at 0x200, ADD V0,V1; ADD V0,V1; RET at 0x300) the run          *)
(* eventually halts, with V0 = 45, V1 = 10 and the call stack empty.        *)
C15_StackMathHalts ==
    StackMathLoaded ~>
        (/\ loc = "finished"
         /\ chip8.registers[0] = 45
         /\ chip8.registers[1] = 10
         /\ chip8.stack_pointer = 0)

(* C15 witness: the stack_math image has run to its halt at 0x208, after    *)
(* both calls.                                                              *)
C15_Witness ==
    /\ loc = "finished"
    /\ chip8.memory = load_into_memory(new, StackMathFile, IoOk).memory
    /\ chip8.position_in_memory = \h20A
    /\ chip8.registers[0] = 45
    /\ chip8.stack_pointer = 0
    /\ chip8.stack[0] = \h208

(* C16: FX33 with I + 2 <= 4095 writes Vx / 100 to memory[I], (Vx / 10)    *)
(* mod 10 to memory[I + 1] and Vx mod 10 to memory[I + 2], and changes no   *)
(* other memory byte, no register and not I.                                *)
C16_Bcd ==
    [][(IsBcd /\ chip8.i + 2 <= MEMORY_SIZE - 1) =>
          /\ chip8'.panic = NoPanic
          /\ \A a \in 0..(MEMORY_SIZE - 1) :
                mem(chip8', a) =
                    IF a = chip8.i THEN Vx \div 100
                    ELSE IF a = chip8.i + 1 THEN (Vx \div 10) % 10
                    ELSE IF a = chip8.i + 2 THEN Vx % 10
                    ELSE mem(chip8, a)
          /\ chip8'.registers = chip8.registers
          /\ chip8'.i = chip8.i]_vars

(* C16 witness: FX33 of 238 has put 2, 3, 8 over the first bytes of the     *)
(* font table and left the byte after them.                                 *)
C16_Witness ==
    /\ loc = "run"
    /\ prev.opcode >= \hF000 /\ op_nn(prev.opcode) = \h33
    /\ prev.registers[op_x(prev.opcode)] = 238
    /\ chip8.i = FONT_OFFSET
    /\ mem(chip8, FONT_OFFSET) = 2
    /\ mem(chip8, FONT_OFFSET + 1) = 3
    /\ mem(chip8, FONT_OFFSET + 2) = 8
    /\ mem(chip8, FONT_OFFSET + 3) = \h90

(* C17: a step of the run loop ends in the halted state if and only if the *)
(* word it fetched is 0x0000, and the halted state is left by no step: no   *)
(* instruction is fetched and nothing changes once halted.                  *)
C17_HaltOnlyOnZero ==
    [][/\ loc # "finished"
       /\ (loc' = "finished") <=> (Fetching /\ Op = \h0000)]_vars

(* C17 witness: the run has halted on a zero word fetched after a draw had  *)
(* lit pixels.                                                              *)
C17_Witness ==
    /\ loc = "finished"
    /\ prev.opcode = \h0000
    /\ chip8.panic = NoPanic
    /\ chip8.display # {}
    /\ chip8.position_in_memory > PROGRAM_START + 2

(* C18: 8XY4, 8XY5, 8XY6, 8XY7, 8XYE and DXYN leave every byte of memory,   *)
(* the byte at 0x0F included, as it was.                                    *)
C18_FlagNotInMemory ==
    [][(IsAlu(4) \/ IsAlu(5) \/ IsAlu(6) \/ IsAlu(7) \/ IsAlu(14) \/ IsDraw) =>
          chip8'.memory = chip8.memory]_vars

IsSkipKey == Fetching /\ Op >= \hE000 /\ Op <= \hEFFF /\ op_nn(Op) = \h9E
IsSkipNoKey == Fetching /\ Op >= \hE000 /\ Op <= \hEFFF /\ op_nn(Op) = \hA1

(* The keypad keys whose host key is up, and was up in the frame before:    *)
(* never pressed, or pressed and released since                             *)
ReleasedKeys ==
    {k \in 0..15 :
        \A key \in (window.keys_down \cup window.keys_prev) \cap HostKeys :
            KeyIndex(key) # k}

(* C19: the latch follows the keys: EX9E on a key that is up, pressed       *)
(* earlier or not, does not skip, and EXA1 on it skips.                     *)
C19_LatchTracksRelease ==
    [][/\ (IsSkipKey /\ Vx \in ReleasedKeys) =>
              chip8'.position_in_memory = chip8.position_in_memory + 2
       /\ (IsSkipNoKey /\ Vx \in ReleasedKeys) =>
              chip8'.position_in_memory = chip8.position_in_memory + 4]_vars

Running == loc \in {"run", "wait_for_keypress"}

(* C20: while the machine runs, a delay timer or sound timer that holds a   *)
(* nonzero value counts down until it holds 0, whatever instructions        *)
(* execute; so the program that sets the delay timer and polls it reads 0   *)
(* in the end.                                                              *)
C20_TimersCountDown ==
    /\ (Running /\ chip8.delay_timer > 0) ~> (chip8.delay_timer = 0 \/ ~Running)
    /\ (Running /\ chip8.sound_timer > 0) ~> (chip8.sound_timer = 0 \/ ~Running)

(* C21: EX9E and EXA1 on a register that holds more than 15 do not end the  *)
(* run in the out-of-bounds panic of an unchecked index: the run goes on    *)
(* past the instruction or past the one after it, or ends with another      *)
(* error; on a register that holds a key index 0..15, EX9E skips the next   *)
(* instruction iff that key is latched and EXA1 iff it is not.              *)
C21_KeyIndexInRange ==
    [][(IsSkipKey \/ IsSkipNoKey) =>
          IF Vx > 15
          THEN /\ chip8'.panic # IndexPanic
               /\ chip8'.panic = NoPanic =>
                      chip8'.position_in_memory
                          \in {chip8.position_in_memory + 2, chip8.position_in_memory + 4}
          ELSE /\ chip8'.panic = NoPanic
               /\ chip8'.position_in_memory = chip8.position_in_memory
                      + (IF chip8.keys[Vx] = IsSkipKey THEN 4 ELSE 2)]_vars

IsFamily(fam) == Fetching /\ Op \div 4096 = fam

(* The step has run a conditional skip on cond and nothing else: the        *)
(* program counter is 4 past the instruction if cond, else 2, and           *)
(* registers, index register, memory, stack and display are as they were    *)
SkippedIff(cond) ==
    /\ chip8'.panic = NoPanic
    /\ chip8'.position_in_memory = chip8.position_in_memory + (IF cond THEN 4 ELSE 2)
    /\ chip8'.registers = chip8.registers
    /\ chip8'.i = chip8.i
    /\ chip8'.memory = chip8.memory
    /\ chip8'.stack = chip8.stack
    /\ chip8'.stack_pointer = chip8.stack_pointer
    /\ chip8'.display = chip8.display

(* C22: every word 0x5XYn, whatever its low nibble n, runs as skip-if-Vx-   *)
(* equals-Vy, and every word 0x9XYn as skip-if-Vx-differs-from-Vy.          *)
C22_LowNibbleIgnored ==
    [][/\ IsFamily(5) => SkippedIff(Vx = Vy)
       /\ IsFamily(9) => SkippedIff(Vx # Vy)]_vars

(* Whether the conditional skip that left the machine as c1 skipped over    *)
(* the instruction after it                                                 *)
Skips(c, c1) == c1.position_in_memory = c.position_in_memory + 2

GateSignals == get_keys_pressed(window)

(* C24: with the debug gate on, the run starts paused and pauses again      *)
(* after every instruction; while it is paused no instruction executes: the *)
(* machine stays as it is until a frame brings a new press of the step key  *)
(* (Enter, or Delete which also turns the gate off), and one press lets one *)
(* instruction run; a new press of Escape while paused ends the process     *)
(* with the machine untouched, and nothing runs after that.                 *)
C24_SingleStepGate ==
    /\ chip8.debug => loc = "wait_on_debug_input"
    /\ [][/\ loc = "wait_on_debug_input" =>
               /\ [chip8' EXCEPT !.debug = TRUE] = chip8
               /\ prev' = prev
               /\ loc' \in {"wait_on_debug_input", "run", "exited"}
               /\ (loc' = "run") => (GateSignals' \cap {"Enter", "Delete"} # {})
               /\ chip8'.debug = ("Delete" \notin GateSignals')
               /\ (loc' = "exited") <=> ("Escape" \in GateSignals')
          /\ (loc = "run" /\ chip8.debug) => loc' # "run"
          /\ (loc' = "run" /\ chip8'.debug) => loc = "wait_on_debug_input"
          /\ loc # "exited"]_vars

(* C24 witness: with the gate still on, a second press of Enter has let the *)
(* second instruction of the program run, and the run is paused before the  *)
(* third.                                                                   *)
C24_Witness ==
    /\ loc = "wait_on_debug_input"
    /\ chip8.debug
    /\ prev.opcode = ADDI(0, 1)
    /\ chip8.registers[0] = 2
    /\ chip8.position_in_memory = \h204

IsAddIx == Fetching /\ Op >= \hF000 /\ op_nn(Op) = \h1E

(* C25: FX1E, for every I in 0..65535 and every Vx, does not abort, leaves  *)
(* I = (I + Vx) mod 65536 and every register, VF included, as it was.       *)
C25_AddIndexWraps ==
    [][IsAddIx =>
          /\ chip8'.panic = NoPanic
          /\ chip8'.i = (chip8.i + Vx) % 65536
          /\ chip8'.registers = chip8.registers]_vars

(* C26: when load_into_memory has failed to open or read the file and      *)
(* reported it, the run does not start: no instruction is ever fetched.     *)
C26_FailedLoadDoesNotRun ==
    (stderr # "") => (prev.opcode = -1 /\ loc # "finished")

(* C27: with I + x <= 4095, FX55 copies V0..Vx into memory[I..I + x] and    *)
(* changes no other byte, no register and not I; FX65 copies                *)
(* memory[I..I + x] into V0..Vx and changes no other register, no byte and  *)
(* not I; an FX65 that directly follows the FX55 with the same I and x      *)
(* leaves all 16 registers as they were before the FX55.                    *)
C27_DumpLoadRoundTrip ==
    [][/\ (IsRegDump /\ chip8.i + X <= MEMORY_SIZE - 1) =>
              /\ chip8'.panic = NoPanic
              /\ \A a \in 0..(MEMORY_SIZE - 1) :
                    mem(chip8', a) =
                        IF a >= chip8.i /\ a <= chip8.i + X
                        THEN chip8.registers[a - chip8.i]
                        ELSE mem(chip8, a)
              /\ chip8'.registers = chip8.registers
              /\ chip8'.i = chip8.i
       /\ (IsRegLoad /\ chip8.i + X <= MEMORY_SIZE - 1) =>
              /\ chip8'.panic = NoPanic
              /\ chip8'.registers =
                    [r \in 0..15 |-> IF r <= X THEN mem(chip8, chip8.i + r)
                                               ELSE chip8.registers[r]]
              /\ chip8'.memory = chip8.memory
              /\ chip8'.i = chip8.i
       /\ (/\ IsRegLoad
           /\ prev.opcode = DUMP(X)
           /\ prev.i = chip8.i
           /\ chip8.i + X <= MEMORY_SIZE - 1) =>
              chip8'.registers = prev.registers]_vars

(* C27 witness: FX55 and then FX65, both of all 16 registers at 0xFF0, have *)
(* run; VF is in the last byte of memory and in VF.                         *)
C27_Witness ==
    /\ loc = "run"
    /\ prev.opcode = LOAD(15)
    /\ chip8.i = \hFF0
    /\ mem(chip8, \hFF0) = 7
    /\ mem(chip8, \hFF2) = 200
    /\ mem(chip8, \hFFF) = 9
    /\ chip8.registers[2] = 200
    /\ chip8.registers[VF] = 9
    /\ chip8.position_in_memory = \h20E

=============================================================================
